---- MODULE Spec2Model ----
(***************************************************************************)
(* A model of the emtelaak-marketing CMS page engine: the bilingual and    *)
(* direction/alignment resolvers (lib/cms/bilingual.ts, lib/rtl-utils.ts,  *)
(* lib/i18n.ts, lib/cms/cms-external.ts), the zod page validator           *)
(* (lib/cms/cms-external.ts) and the page pipeline with the recursive      *)
(* ComponentRenderer (app/[locale]/[slug]/page.tsx,                        *)
(* components/cms/ComponentRenderer.tsx).                                  *)
(*                                                                         *)
(* JavaScript values are tagged records: the field k holds the typeof tag  *)
(* ("undefined", "null", "string", "number", "boolean", "object",          *)
(* "array").                                                               *)
(***************************************************************************)
EXTENDS Integers, Sequences, FiniteSets, TLC

VARIABLES
    \* ---- resolver calls (SpecResolve)
    rOp,        \* the resolver applied last ("none" before the first call)
    rText,      \* the text argument of getBilingualText
    rAlign,     \* the align argument of getAlignmentClass
    rLang,      \* the language / locale argument
    rOut,       \* the result of the implementation the components import
    rOut2,      \* the result of the second implementation of the same resolver
    \* ---- the page pipeline of app/[locale]/[slug]/page.tsx (Spec)
    pc,         \* position of the request: request, fetched, rendering, ...
    entry,      \* the page entry point that serves it: "Page" or "Home"
    locale,     \* the [locale] route parameter
    page,       \* what getPage returned (undefined before the fetch)
    content,    \* what getPageContent selected
    stack,      \* paths of the <ComponentRenderer> elements React has yet to render
    calls,      \* the ComponentRenderer invocations made so far, in order
    warnings,   \* the console.warn diagnostics emitted so far
    validated,  \* paths of the nodes whose props a schema has parsed
    \* ---- the request on its way to a page entry point (SpecRoute)
    pathname,   \* request.nextUrl.pathname, as the sequence of its segments
    acceptLanguage, \* the accept-language header (null when absent)
    cookie,     \* the NEXT_LOCALE cookie (undefined when absent)
    layout,     \* the <html lang dir> that RootLayout returned
    redirects,  \* the redirect responses the proxy has sent for the request
    \* ---- a call of getPage of api-client.ts (SpecFetch)
    response,   \* what fetch did: a network error, or a status and a body
    errors,     \* the console.error diagnostics emitted so far
    \* ---- calls of the validation API of cms-external.ts (SpecValidate)
    vOp,        \* the validating operation applied last ("none" before the first)
    vType,      \* the type argument of validateComponent (undefined for a page)
    vInput,     \* its data argument
    vResult,    \* the result it returned
    vPrev       \* the result of validatePage whose data was validated again

resolverVars == <<rOp, rText, rAlign, rLang, rOut, rOut2>>
pipelineVars == <<pc, entry, locale, page, content, stack, calls, warnings, validated>>
requestVars == <<pathname, acceptLanguage, cookie, layout, redirects>>
fetchVars == <<response, errors>>
validatorVars == <<vOp, vType, vInput, vResult, vPrev>>
vars == <<rOp, rText, rAlign, rLang, rOut, rOut2,
          pc, entry, locale, page, content, stack, calls, warnings, validated,
          pathname, acceptLanguage, cookie, layout, redirects, response, errors,
          vOp, vType, vInput, vResult, vPrev>>

----------------------------------------------------------------------------
(* JavaScript values *)

Undef == [k |-> "undefined"]
Null == [k |-> "null"]
Str(s) == [k |-> "string", s |-> s]
Num(n) == [k |-> "number", n |-> n]
Bool(b) == [k |-> "boolean", b |-> b]

\* The number 0.5 (5 * 10^-1), the one fraction the components use.
Half == [k |-> "number", n |-> 5, e |-> -1]

\* An object {en, ar}; an absent property reads as undefined.
Bilingual(e, a) == [k |-> "object", en |-> e, ar |-> a]

\* A property read v.f: undefined when v has no such property.
Get(v, f) == IF f \in DOMAIN v THEN v[f] ELSE Undef

\* A default of a destructured parameter ({x = d}): taken for undefined only.
Dflt(v, d) == IF v = Undef THEN d ELSE v

\* ToString of a value inside a template literal.
ToStr(v) ==
    CASE v.k = "string" -> v.s
      [] v.k = "number" -> ToString(v.n)
      [] v.k = "undefined" -> "undefined"
      [] v.k = "null" -> "null"
      [] OTHER -> "[object Object]"

\* ToBoolean of a value, as `!x` and `x && y` and `x ? a : b` apply it.
Truthy(v) ==
    CASE v.k = "undefined" -> FALSE
      [] v.k = "null" -> FALSE
      [] v.k = "string" -> v.s # ""
      [] v.k = "number" -> v.n # 0
      [] v.k = "boolean" -> v.b
      [] OTHER -> TRUE

----------------------------------------------------------------------------
(* lib/i18n.ts *)

locales == <<"en", "ar">>

defaultLocale == "en"

isValidLocale(loc) == \E i \in DOMAIN locales : locales[i] = loc

getDirection_AlwaysLtr(loc) == "ltr"

getDirection(loc) == IF loc = "ar" THEN "rtl" ELSE "ltr"

----------------------------------------------------------------------------
(* lib/rtl-utils.ts *)

\* getDirection of rtl-utils.ts (the name getDirection is taken by i18n.ts).
rtlGetDirection(language) == IF language = "ar" THEN "rtl" ELSE "ltr"

isRTL(language) == language = "ar"

AlignKeys == {"start", "end", "left", "right", "center", "justify"}

\* rtlClasses.textAlign
rtlClasses_textAlign ==
    [a \in AlignKeys |-> "text-" \o a]

\* A property read rtlClasses.textAlign[align]: undefined for a missing key.
textAlignAt(align) ==
    IF align.k = "string" /\ align.s \in DOMAIN rtlClasses_textAlign
    THEN Str(rtlClasses_textAlign[align.s])
    ELSE Undef

getAlignmentClass_StartIsLeft(align, language) ==
    IF ~Truthy(align) THEN Str("")
    ELSE IF align = Str("start") THEN Str("text-left")
    ELSE IF align = Str("end") THEN Str("text-right")
    ELSE textAlignAt(align)

getAlignmentClass_FlipsPhysical(align, language) ==
    IF ~Truthy(align) THEN Str("")
    ELSE IF language = "ar" /\ align = Str("left") THEN Str("text-right")
    ELSE IF language = "ar" /\ align = Str("right") THEN Str("text-left")
    ELSE textAlignAt(align)

getAlignmentClass(align, language) ==
    IF ~Truthy(align) THEN Str("")
    ELSE IF align = Str("left") \/ align = Str("right")
            \/ align = Str("center") \/ align = Str("justify")
    THEN textAlignAt(align)
    ELSE textAlignAt(align)

\* The side a text-align class puts the text on under a dir attribute
\* (the comments of rtlClasses.textAlign: "Left in LTR, Right in RTL", ...).
PhysicalSide(token, dir) ==
    CASE token = Str("text-start") -> IF dir = "rtl" THEN "right" ELSE "left"
      [] token = Str("text-end") -> IF dir = "rtl" THEN "left" ELSE "right"
      [] token = Str("text-left") -> "left"
      [] token = Str("text-right") -> "right"
      [] token = Str("text-center") -> "center"
      [] token = Str("text-justify") -> "justify"
      [] OTHER -> "none"

----------------------------------------------------------------------------
(* lib/cms/bilingual.ts *)

getBilingualText_NoStringCase(text, loc) ==
    IF ~Truthy(text) THEN Str("")
    ELSE IF text.k = "string" THEN Undef
    ELSE IF loc = "ar" /\ Truthy(text.ar) THEN text.ar ELSE text.en

getBilingualText_NoFallback(text, loc) ==
    IF ~Truthy(text) THEN Str("")
    ELSE IF text.k = "string" THEN text
    ELSE IF loc = "ar" THEN text.ar ELSE text.en

getBilingualText(text, loc) ==
    IF ~Truthy(text) THEN Str("")
    ELSE IF text.k = "string" THEN text
    ELSE IF loc = "ar" /\ Truthy(text.ar) THEN text.ar ELSE text.en

getPageContent(contentJson, contentJsonAr, loc) ==
    IF loc = "ar" /\ Truthy(contentJsonAr) THEN contentJsonAr
    ELSE contentJson

----------------------------------------------------------------------------
(* lib/cms/cms-external.ts: the helpers exported beside the schemas *)

\* getBilingualText of cms-external.ts.
extGetBilingualText(text, language) ==
    IF ~Truthy(text) THEN Str("")
    ELSE IF text.k = "string" THEN text
    ELSE IF language = "ar" /\ Truthy(text.ar) THEN text.ar ELSE text.en

\* getRTLClasses(language).textAlign
getRTLClasses_textAlign(language) ==
    LET isRtl == language = "ar" IN
    [start |-> IF isRtl THEN "text-right" ELSE "text-left",
     end |-> IF isRtl THEN "text-left" ELSE "text-right",
     left |-> "text-left",
     right |-> "text-right",
     center |-> "text-center"]

\* getRTLClasses(language).dir
getRTLClasses_dir(language) == IF language = "ar" THEN "rtl" ELSE "ltr"

\* A property read getRTLClasses(language).textAlign[align].
extTextAlignAt(align, language) ==
    IF align.k = "string" /\ align.s \in DOMAIN getRTLClasses_textAlign(language)
    THEN Str(getRTLClasses_textAlign(language)[align.s])
    ELSE Undef

----------------------------------------------------------------------------
(* components/cms/components/*.tsx: the rendering implementations.  Each   *)
(* takes the node's props (spread by ComponentRenderer) and the locale and *)
(* returns the element it outputs; slot tells whether {children} is        *)
(* placed in the output.                                                   *)

\* A template literal `${a} ${b}`.
Tmpl2(a, b) == Str(ToStr(a) \o " " \o ToStr(b))

Container(props, loc) ==
    [tag |-> "div",
     className |-> Dflt(Get(props, "className"), Str("")),
     style |-> [maxWidth |-> Get(props, "maxWidth"),
                padding |-> Get(props, "padding"),
                margin |-> Get(props, "margin"),
                backgroundColor |-> Get(props, "backgroundColor")],
     slot |-> TRUE]

Heading(props, loc) ==
    LET level == Dflt(Get(props, "level"), Str("h2"))
        align == Get(props, "align")
        className == Dflt(Get(props, "className"), Str(""))
        alignClass == IF Truthy(align) THEN getAlignmentClass(align, loc) ELSE Str("")
    IN [tag |-> ToStr(level),
        className |-> Tmpl2(alignClass, className),
        style |-> [color |-> Get(props, "color")],
        text |-> getBilingualText(Get(props, "text"), loc),
        slot |-> FALSE]

Paragraph(props, loc) ==
    LET align == Get(props, "align")
        className == Dflt(Get(props, "className"), Str(""))
        alignClass == IF Truthy(align) THEN getAlignmentClass(align, loc) ELSE Str("")
    IN [tag |-> "p",
        className |-> Tmpl2(alignClass, className),
        style |-> [fontSize |-> Get(props, "fontSize"), color |-> Get(props, "color")],
        text |-> getBilingualText(Get(props, "text"), loc),
        slot |-> FALSE]

\* variantClasses and sizeClasses of Button: the class list a key selects
\* (named by its key), undefined for a key the table lacks.
variantClasses == {"default", "outline", "ghost", "destructive"}

sizeClasses == {"sm", "default", "lg"}

ClassOf(table, prefix, key) ==
    IF key.k = "string" /\ key.s \in table THEN Str(prefix \o key.s) ELSE Undef

Button(props, loc) ==
    LET href == Get(props, "href")
        variant == Dflt(Get(props, "variant"), Str("default"))
        size == Dflt(Get(props, "size"), Str("default"))
        className == Dflt(Get(props, "className"), Str(""))
        classes == Str("base " \o ToStr(ClassOf(variantClasses, "variant-", variant))
                       \o " " \o ToStr(ClassOf(sizeClasses, "size-", size))
                       \o " " \o ToStr(className))
    IN [tag |-> IF Truthy(href) THEN "Link" ELSE "button",
        href |-> IF Truthy(href) THEN href ELSE Undef,
        className |-> classes,
        text |-> getBilingualText(Get(props, "text"), loc),
        slot |-> FALSE]

Image(props, loc) ==
    LET width == Get(props, "width")
        height == Get(props, "height")
        objectFit == Dflt(Get(props, "objectFit"), Str("cover"))
        className == Dflt(Get(props, "className"), Str(""))
    IN IF Truthy(width) /\ Truthy(height)
       THEN [tag |-> "NextImage",
             src |-> Get(props, "src"), alt |-> Get(props, "alt"),
             width |-> width, height |-> height,
             className |-> className,
             style |-> [objectFit |-> objectFit],
             slot |-> FALSE]
       ELSE [tag |-> "img",
             src |-> Get(props, "src"), alt |-> Get(props, "alt"),
             className |-> className,
             style |-> [objectFit |-> objectFit, width |-> Str("100%"),
                        height |-> Str("auto")],
             slot |-> FALSE]

HeroSection(props, loc) ==
    LET subtitle == Get(props, "subtitle")
        backgroundImage == Get(props, "backgroundImage")
        ctaText == Get(props, "ctaText")
        ctaLink == Get(props, "ctaLink")
        ctaVariant == Dflt(Get(props, "ctaVariant"), Str("default"))
        textAlign == Dflt(Get(props, "textAlign"), Str("center"))
        overlayOpacity == Dflt(Get(props, "overlayOpacity"), Half)
        className == Dflt(Get(props, "className"), Str(""))
    IN [tag |-> "div",
        className |-> Tmpl2(Str("relative flex items-center justify-center"), className),
        style |-> [height |-> Dflt(Get(props, "height"), Str("600px")),
                   backgroundImage |->
                       IF Truthy(backgroundImage)
                       THEN Str("url(" \o ToStr(backgroundImage) \o ")") ELSE Undef,
                   backgroundColor |-> Get(props, "backgroundColor"),
                   color |-> Dflt(Get(props, "textColor"), Str("#ffffff"))],
        overlay |-> IF Truthy(backgroundImage) THEN overlayOpacity ELSE Undef,
        alignClass |-> getAlignmentClass(textAlign, loc),
        title |-> getBilingualText(Get(props, "title"), loc),
        subtitle |-> IF Truthy(subtitle) THEN getBilingualText(subtitle, loc) ELSE Undef,
        cta |-> IF Truthy(ctaText) /\ Truthy(ctaLink)
                THEN Button([k |-> "object", text |-> ctaText, href |-> ctaLink,
                             variant |-> ctaVariant, size |-> Str("lg")], loc)
                ELSE Null,
        slot |-> FALSE]

\* Columns without {children} in the grid.
Columns_DropsChildren(props, loc) ==
    LET columns == Dflt(Get(props, "columns"), Num(2))
        className == Dflt(Get(props, "className"), Str(""))
    IN [tag |-> "div",
        className |-> Tmpl2(Str("grid"), className),
        style |-> [gridTemplateColumns |-> Str("repeat(" \o ToStr(columns) \o ", 1fr)"),
                   gap |-> Dflt(Get(props, "gap"), Str("1rem"))],
        slot |-> FALSE]

Columns(props, loc) ==
    LET columns == Dflt(Get(props, "columns"), Num(2))
        className == Dflt(Get(props, "className"), Str(""))
    IN [tag |-> "div",
        className |-> Tmpl2(Str("grid"), className),
        style |-> [gridTemplateColumns |-> Str("repeat(" \o ToStr(columns) \o ", 1fr)"),
                   gap |-> Dflt(Get(props, "gap"), Str("1rem"))],
        slot |-> TRUE]

Spacer(props, loc) ==
    [tag |-> "div",
     className |-> Dflt(Get(props, "className"), Str("")),
     style |-> [height |-> Dflt(Get(props, "height"), Str("2rem"))],
     slot |-> FALSE]

Divider(props, loc) ==
    [tag |-> "hr",
     className |-> Dflt(Get(props, "className"), Str("")),
     style |-> [borderColor |-> Dflt(Get(props, "color"), Str("#e5e7eb")),
                borderWidth |-> Dflt(Get(props, "thickness"), Str("1px")),
                margin |-> Dflt(Get(props, "margin"), Str("1rem 0"))],
     slot |-> FALSE]

----------------------------------------------------------------------------
(* components/cms/ComponentRenderer.tsx *)

\* The own keys of componentMap.
componentMap ==
    {"Container", "Heading", "Paragraph", "Button", "Image", "HeroSection",
     "Columns", "Spacer", "Divider"}

\* componentMap is an object literal: a key it does not own is looked up on
\* Object.prototype.
ObjectPrototypeKeys ==
    {"constructor", "toString", "toLocaleString", "valueOf", "hasOwnProperty",
     "isPrototypeOf", "propertyIsEnumerable", "__proto__"}

\* componentMap[type]: "own" for a registered implementation, "inherited" for
\* a member of Object.prototype (truthy, so not caught by !Component),
\* "undefined" otherwise.
componentMapAt(type) ==
    IF type.k = "string" /\ type.s \in componentMap THEN "own"
    ELSE IF ToStr(type) \in ObjectPrototypeKeys THEN "inherited"
    ELSE "undefined"

\* <Component {...props} locale={locale}> for an own key of componentMap.
Implementation(type, props, loc) ==
    CASE type = "Container" -> Container(props, loc)
      [] type = "Heading" -> Heading(props, loc)
      [] type = "Paragraph" -> Paragraph(props, loc)
      [] type = "Button" -> Button(props, loc)
      [] type = "Image" -> Image(props, loc)
      [] type = "HeroSection" -> HeroSection(props, loc)
      [] type = "Columns" -> Columns(props, loc)
      [] type = "Spacer" -> Spacer(props, loc)
      [] type = "Divider" -> Divider(props, loc)

\* What React gets from an inherited member used as a component: called as a
\* function with the props and no this, Object.prototype.toString returns the
\* string "[object Undefined]", which is rendered as text; Object returns the
\* props object, __proto__ is no function, and the other members throw on an
\* undefined this: React throws on each of them.
InheritedRender(key) ==
    IF key = "toString" THEN Str("[object Undefined]") ELSE [k |-> "throw"]

\* The node of the tree at a path (a sequence of child indices).
RECURSIVE NodeAt(_, _)
NodeAt(node, path) ==
    IF path = <<>> THEN node
    ELSE NodeAt(Get(node, "children").items[Head(path)], Tail(path))

\* The tree whose nodes the <ComponentRenderer> elements of an entry point
\* are created for: Page starts at content.root, Home at each item of
\* content (the items are the children of the <div> that Home returns).
RootOf(e, c) ==
    IF e = "Home" THEN [k |-> "object", children |-> c] ELSE Get(c, "root")

\* const {type, props, children} = component throws on null and undefined;
\* children && children.map(child => ... key={child.id} ...) throws when a
\* truthy children is no array and when a child is null or undefined.
ChildrenThrow(children) ==
    /\ Truthy(children)
    /\ \/ children.k # "array"
       \/ \E i \in 1..Len(children.items) : children.items[i].k \in {"null", "undefined"}

\* children && children.map(child => <ComponentRenderer .../>): the elements
\* created for the children of the node at a path, in order.
ChildElements(children, path) ==
    IF Truthy(children)
    THEN [i \in 1..Len(children.items) |-> path \o <<i>>]
    ELSE <<>>

----------------------------------------------------------------------------
(* Component trees: the JSON the content source supplies *)

\* The largest number of nodes of a component tree.
MaxNodes == 4

EmptyObject == [k |-> "object"]

Arr(items) == [k |-> "array", items |-> items]

\* A ComponentNode {id, type, props, children?}; a node without children
\* has no children property.
Node(label, forest) ==
    [k |-> "object", id |-> Str("n"), type |-> label.type, props |-> label.props,
     children |-> IF forest = <<>> THEN Undef ELSE Arr(forest)]

\* The ordered trees of exactly n nodes (and forests of exactly m nodes)
\* whose nodes carry a label {type, props} of Labels.
RECURSIVE TreesOf(_, _), ForestsOf(_, _)
TreesOf(n, Labels) ==
    IF n = 0 THEN {}
    ELSE {Node(l, f) : l \in Labels, f \in ForestsOf(n - 1, Labels)}

ForestsOf(m, Labels) ==
    IF m = 0 THEN {<<>>}
    ELSE UNION {{<<t>> \o f : t \in TreesOf(j, Labels), f \in ForestsOf(m - j, Labels)}
                    : j \in 1..m}

\* Ids are unique within a tree: a node's id is its path.
RECURSIVE WithIds(_, _)
WithIds(node, path) ==
    [node EXCEPT
        !.id = Str(ToString(path)),
        !.children =
            IF @ = Undef THEN Undef
            ELSE Arr([i \in 1..Len(@.items) |-> WithIds(@.items[i], path \o <<i>>)])]

TreesUpTo(n, Labels) ==
    {WithIds(t, <<>>) : t \in UNION {TreesOf(j, Labels) : j \in 1..n}}

\* The sequences of at most n elements of a set.
RECURSIVE SeqsUpTo(_, _)
SeqsUpTo(n, S) ==
    IF n = 0 THEN {<<>>}
    ELSE LET shorter == SeqsUpTo(n - 1, S)
         IN shorter \cup {Append(q, x) : q \in shorter, x \in S}

\* A single Container.
aNode == [k |-> "object", id |-> Str("1"), type |-> Str("Container"),
          props |-> EmptyObject, children |-> Undef]

\* PageContent {version, root}.
PageContent(root) == [k |-> "object", version |-> Str("1.0"), root |-> root]

\* Every path of a tree.
RECURSIVE PathsOf(_, _)
PathsOf(node, path) ==
    {path} \cup
    (IF Get(node, "children").k = "array"
     THEN UNION {PathsOf(node.children.items[i], path \o <<i>>)
                    : i \in 1..Len(node.children.items)}
     ELSE {})

----------------------------------------------------------------------------
(* app/[locale]/[slug]/page.tsx: Page, with React rendering the            *)
(* <ComponentRenderer> elements depth-first, one element per step          *)

\* The labels of the nodes of the pages served: a container, a leaf, a type
\* no table knows and a type that names a member of Object.prototype.
PipelineLabels ==
    {[type |-> Str("Container"), props |-> EmptyObject],
     [type |-> Str("Heading"),
      props |-> [k |-> "object", text |-> Bilingual(Str("Hello"), Str("Marhaba"))]],
     [type |-> Str("DoesNotExist"), props |-> EmptyObject],
     [type |-> Str("constructor"), props |-> EmptyObject]}

\* Contents that are not of the PageContent shape: the root, a children
\* field or a child has the wrong shape.
MalformedContents ==
    {Str("content"),
     PageContent(Str("root")),
     PageContent([aNode EXCEPT !.children = Str("none")]),
     PageContent([aNode EXCEPT !.children = Arr(<<Null>>)]),
     Arr(<<Null>>)}

\* The list of components that Home maps over.
MaxListed == 2

ListContents ==
    {Arr([i \in 1..Len(f) |-> WithIds(f[i], <<i>>)])
        : f \in UNION {ForestsOf(m, PipelineLabels) : m \in 0..MaxListed}}

\* contentJson: a page content, null, an object without root, a malformed
\* content, or a list of components.
Contents ==
    {PageContent(t) : t \in TreesUpTo(MaxNodes, PipelineLabels)}
    \cup {Null, [k |-> "object", version |-> Str("1.0")]}
    \cup MalformedContents \cup ListContents

\* contentJsonAr: null, or an Arabic page content.
ArContents ==
    {Null,
     PageContent([k |-> "object", id |-> Str("ar"), type |-> Str("Heading"),
                  props |-> [k |-> "object", text |-> Str("Marhaba")],
                  children |-> Undef])}

\* DynamicPage (the fields Page reads).
Pages ==
    {[k |-> "object", contentJson |-> c, contentJsonAr |-> a]
        : c \in Contents, a \in ArContents}

Init ==
    /\ pc = "request"
    /\ entry \in {"Page", "Home"}
    /\ locale \in {"en", "ar"}
    /\ page = Undef
    /\ content = Undef
    /\ stack = <<>>
    /\ calls = <<>>
    /\ warnings = <<>>
    /\ validated = {}
    /\ pathname = <<>>
    /\ acceptLanguage = Null
    /\ cookie = Undef
    /\ layout = Undef
    /\ redirects = <<>>
    /\ response = Undef
    /\ errors = <<>>
    /\ vOp = "none"
    /\ vType = Undef
    /\ vInput = Undef
    /\ vResult = Undef
    /\ vPrev = Undef
    /\ rOp = "none"
    /\ rText = Undef
    /\ rAlign = Undef
    /\ rLang = defaultLocale
    /\ rOut = Undef
    /\ rOut2 = Undef

\* const page = await getPage(slug); if (!page) notFound(); Home returns
\* its "Homepage content not found" screen instead.
FetchPage ==
    /\ pc = "request"
    /\ \E p \in Pages \cup {Null} :
        /\ page' = p
        /\ pc' = IF Truthy(p) THEN "fetched" ELSE "notFound"
    /\ UNCHANGED <<entry, locale, content, stack, calls, warnings, validated>>
    /\ UNCHANGED <<resolverVars, validatorVars, requestVars, fetchVars>>

\* getPageContent, the "No content available" fallback, and the element
\* <ComponentRenderer component={content.root}> handed to React.  No
\* schema is applied on the way: validated is left as it is.
SelectContent ==
    /\ pc = "fetched"
    /\ entry = "Page"
    /\ LET c == getPageContent(page.contentJson, page.contentJsonAr, locale)
       IN /\ content' = c
          /\ IF ~Truthy(c) \/ ~Truthy(Get(c, "root"))
             THEN pc' = "noContent" /\ stack' = <<>>
             ELSE pc' = "rendering" /\ stack' = << <<>> >>
    /\ UNCHANGED <<entry, locale, page, calls, warnings, validated>>
    /\ UNCHANGED <<resolverVars, validatorVars, requestVars, fetchVars>>

\* Home: getPageContent, then content.map(component => <ComponentRenderer
\* component={component}>) with no check of content: the call throws a
\* TypeError unless content is an array.
MapContent ==
    /\ pc = "fetched"
    /\ entry = "Home"
    /\ LET c == getPageContent(page.contentJson, page.contentJsonAr, locale)
       IN /\ content' = c
          /\ IF c.k # "array"
             THEN pc' = "threw" /\ stack' = <<>>
             ELSE /\ stack' = [i \in 1..Len(c.items) |-> <<i>>]
                  /\ pc' = IF c.items = <<>> THEN "done" ELSE "rendering"
    /\ UNCHANGED <<entry, locale, page, calls, warnings, validated>>
    /\ UNCHANGED <<resolverVars, validatorVars, requestVars, fetchVars>>

\* React renders the next <ComponentRenderer> element: ComponentRenderer
\* looks the type up, warns and returns null on a miss, and otherwise
\* returns <Component {...props}> with one element per child; the child
\* elements are rendered only where the implementation places {children}.
RenderStep ==
    /\ pc = "rendering"
    /\ stack # <<>>
    /\ LET path == Head(stack)
           component == NodeAt(RootOf(entry, content), path)
           type == Get(component, "type")
           props == Get(component, "props")
           children == Get(component, "children")
           found == componentMapAt(type)
           after(rest) == IF rest = <<>> THEN "done" ELSE "rendering"
       IN CASE component.k \in {"null", "undefined"} ->
                /\ pc' = "threw"
                /\ stack' = <<>>
                /\ UNCHANGED <<calls, warnings>>
            [] component.k \notin {"null", "undefined"} /\ found = "undefined" ->
                /\ warnings' = Append(warnings,
                        "Component type \"" \o ToStr(type) \o "\" not found")
                /\ calls' = Append(calls,
                        [path |-> path, type |-> type, found |-> found, out |-> Null])
                /\ stack' = Tail(stack)
                /\ pc' = after(Tail(stack))
            [] found # "undefined" /\ ChildrenThrow(children) ->
                /\ pc' = "threw"
                /\ stack' = <<>>
                /\ UNCHANGED <<calls, warnings>>
            [] found = "own" /\ ~ChildrenThrow(children) ->
                LET out == Implementation(type.s, props, locale)
                    rest == (IF out.slot THEN ChildElements(children, path) ELSE <<>>)
                                \o Tail(stack)
                IN /\ calls' = Append(calls,
                        [path |-> path, type |-> type, found |-> found, out |-> out])
                   /\ stack' = rest
                   /\ pc' = after(rest)
                   /\ UNCHANGED warnings
            [] found = "inherited" /\ ~ChildrenThrow(children) ->
                LET out == InheritedRender(ToStr(type))
                IN /\ calls' = Append(calls,
                        [path |-> path, type |-> type, found |-> found, out |-> out])
                   /\ UNCHANGED warnings
                   /\ IF out.k = "throw"
                      THEN pc' = "threw" /\ stack' = <<>>
                      ELSE stack' = Tail(stack) /\ pc' = after(Tail(stack))
    /\ UNCHANGED <<entry, locale, page, content, validated>>
    /\ UNCHANGED <<resolverVars, validatorVars, requestVars, fetchVars>>

Next ==
    \/ FetchPage
    \/ SelectContent
    \/ MapContent
    \/ RenderStep

Spec == Init /\ [][Next]_vars

----------------------------------------------------------------------------
(* SpecRender: <ComponentRenderer> applied to a HeroSection node and to a  *)
(* Columns node with children                                              *)

CtaTexts ==
    {Undef, Str(""), Str("Buy"), Bilingual(Str(""), Undef),
     Bilingual(Str(""), Str("Ishtari")), Bilingual(Str("Buy"), Str("")),
     Bilingual(Str("Buy"), Str("Ishtari"))}

CtaLinks == {Undef, Str(""), Str("/buy")}

HeroNodes ==
    {[k |-> "object", id |-> Str("hero"), type |-> Str("HeroSection"),
      props |-> [k |-> "object", title |-> Str("Invest"), ctaText |-> t, ctaLink |-> l],
      children |-> Undef] : t \in CtaTexts, l \in CtaLinks}

\* The children of the Columns nodes rendered: at most MaxChildren nodes of
\* types the dispatch table holds.
MaxChildren == 3

ChildLabels ==
    {[type |-> Str("Heading"),
      props |-> [k |-> "object", text |-> Bilingual(Str("Hello"), Str("Marhaba"))]],
     [type |-> Str("Spacer"), props |-> EmptyObject],
     [type |-> Str("Container"), props |-> EmptyObject]}

ChildLists == SeqsUpTo(MaxChildren, {Node(l, <<>>) : l \in ChildLabels})

ColumnsProps ==
    {EmptyObject} \cup {[k |-> "object", columns |-> Num(n)] : n \in {1, 3, 12}}

ColumnsNodes ==
    {WithIds(Node([type |-> Str("Columns"), props |-> q], c), <<>>)
        : q \in ColumnsProps, c \in ChildLists}

\* Image nodes whose props satisfy imagePropsSchema: width and height are
\* absent or any number, 0 included.
ImageSizes == {Undef, Num(0), Num(800)}

ImageNodes ==
    {[k |-> "object", id |-> Str("image"), type |-> Str("Image"),
      props |-> [k |-> "object", src |-> Str("https://cdn.emtelaak.com/hero.jpg"),
                 alt |-> Str("Hero"), width |-> w, height |-> h, objectFit |-> f],
      children |-> Undef]
        : w \in ImageSizes, h \in ImageSizes, f \in {Undef, Str("contain")}}

InitRender ==
    /\ pc = "rendering"
    /\ entry = "Page"
    /\ locale \in {"en", "ar"}
    /\ \E node \in HeroNodes \cup ColumnsNodes \cup ImageNodes :
        /\ content = PageContent(node)
        /\ page = [k |-> "object", contentJson |-> content, contentJsonAr |-> Null]
    /\ stack = << <<>> >>
    /\ calls = <<>>
    /\ warnings = <<>>
    /\ validated = {}
    /\ pathname = <<>>
    /\ acceptLanguage = Null
    /\ cookie = Undef
    /\ layout = Undef
    /\ redirects = <<>>
    /\ response = Undef
    /\ errors = <<>>
    /\ vOp = "none"
    /\ vType = Undef
    /\ vInput = Undef
    /\ vResult = Undef
    /\ vPrev = Undef
    /\ rOp = "none"
    /\ rText = Undef
    /\ rAlign = Undef
    /\ rLang = defaultLocale
    /\ rOut = Undef
    /\ rOut2 = Undef

NextRender == RenderStep

SpecRender == InitRender /\ [][NextRender]_vars

----------------------------------------------------------------------------
(* SpecRoute: a request passes the proxy (src/proxy.ts), is routed to      *)
(* app/[locale]/page.tsx or app/[locale]/[slug]/page.tsx, and is rendered  *)
(* by RootLayout and the entry point                                       *)

\* The segments of the request paths; the ones below hold a dot.
Segments == {"en", "ar", "fr", "about", "brochure.pdf", "api"}

DottedSegments == {"brochure.pdf"}

\* The request paths: at most MaxSegments segments.
MaxSegments == 2

Pathnames == SeqsUpTo(MaxSegments, Segments)

\* accept-language headers; the ones below contain "ar".
AcceptLanguages == {Null, Str("en-US,en;q=0.9"), Str("ar-EG,ar;q=0.9")}

ArabicHeaders == {"ar-EG,ar;q=0.9"}

Cookies == {Undef, Str("en"), Str("ar"), Str("fr")}

\* config.matcher '/((?!api|_next|.*\\..*).*)': the proxy runs unless the
\* path after the first slash starts with api or _next or holds a dot.
matcher(path) ==
    /\ Len(path) > 0 => path[1] \notin {"api", "_next"}
    /\ \A i \in DOMAIN path : path[i] \notin DottedSegments

\* locales.some(l => pathname.startsWith(`/${l}/`) || pathname === `/${l}`)
pathnameHasLocale(path) ==
    \E i \in DOMAIN locales : Len(path) > 0 /\ path[1] = locales[i]

\* The detection with a cookie that is not checked by isValidLocale.
detectedLocale_TrustsCookie(accept, localeCookie) ==
    IF Truthy(localeCookie) THEN localeCookie.s
    ELSE IF Truthy(accept) /\ accept.s \in ArabicHeaders THEN "ar"
    ELSE defaultLocale

\* The locale the proxy detects: the cookie if it is a valid locale, else
\* "ar" if the accept-language header includes "ar", else the default.
detectedLocale(accept, localeCookie) ==
    IF Truthy(localeCookie) /\ isValidLocale(localeCookie.s) THEN localeCookie.s
    ELSE IF Truthy(accept) /\ accept.s \in ArabicHeaders THEN "ar"
    ELSE defaultLocale

\* The pages getPage returns to a routed request.
RoutedPages ==
    {Null,
     [k |-> "object",
      contentJson |-> PageContent([aNode EXCEPT !.type = Str("Heading"),
            !.props = [k |-> "object", text |-> Bilingual(Str("Hello"), Str("Marhaba"))]]),
      contentJsonAr |-> Null],
     [k |-> "object", contentJson |-> Arr(<<aNode>>), contentJsonAr |-> Null]}

\* The redirects a client follows for one request before it gives up.
MaxRedirects == 3

InitRoute ==
    /\ pc = "received"
    /\ pathname \in Pathnames
    /\ acceptLanguage \in AcceptLanguages
    /\ cookie \in Cookies
    /\ layout = Undef
    /\ redirects = <<>>
    /\ response = Undef
    /\ errors = <<>>
    /\ entry = "Page"
    /\ locale = defaultLocale
    /\ page = Undef
    /\ content = Undef
    /\ stack = <<>>
    /\ calls = <<>>
    /\ warnings = <<>>
    /\ validated = {}
    /\ vOp = "none"
    /\ vType = Undef
    /\ vInput = Undef
    /\ vResult = Undef
    /\ vPrev = Undef
    /\ rOp = "none"
    /\ rText = Undef
    /\ rAlign = Undef
    /\ rLang = defaultLocale
    /\ rOut = Undef
    /\ rOut2 = Undef

\* proxy(request) on a path the matcher selects: NextResponse.next() for a
\* path with a locale prefix, else a redirect to /<detected locale><path>
\* that sets the NEXT_LOCALE cookie; the client then requests the new path.
proxy ==
    /\ pc = "received"
    /\ matcher(pathname)
    /\ IF pathnameHasLocale(pathname)
       THEN pc' = "routing" /\ UNCHANGED <<pathname, cookie, redirects>>
       ELSE LET detected == detectedLocale(acceptLanguage, cookie)
            IN /\ Len(redirects) < MaxRedirects
               /\ pathname' = <<detected>> \o pathname
               /\ cookie' = Str(detected)
               /\ redirects' = Append(redirects,
                        [from |-> pathname, to |-> <<detected>> \o pathname,
                         cookie |-> Str(detected)])
               /\ pc' = "received"
    /\ UNCHANGED <<acceptLanguage, layout, entry, locale, page, content, stack, calls,
                   warnings, validated, resolverVars, validatorVars, fetchVars>>

\* A path the matcher leaves out goes to the router without the proxy.
Unmatched ==
    /\ pc = "received"
    /\ ~matcher(pathname)
    /\ pc' = "routing"
    /\ UNCHANGED <<requestVars, entry, locale, page, content, stack, calls,
                   warnings, validated, resolverVars, validatorVars, fetchVars>>

\* The app router: /[locale] is Home, /[locale]/[slug] is Page; the first
\* segment becomes params.locale as it is.  No other path has a route.
Route ==
    /\ pc = "routing"
    /\ IF Len(pathname) \in {1, 2}
       THEN /\ locale' = pathname[1]
            /\ entry' = IF Len(pathname) = 1 THEN "Home" ELSE "Page"
            /\ pc' = "layout"
       ELSE pc' = "notFound" /\ UNCHANGED <<locale, entry>>
    /\ UNCHANGED <<requestVars, page, content, stack, calls, warnings, validated,
                   resolverVars, validatorVars, fetchVars>>

\* RootLayout: const direction = getDirection(locale); <html lang dir>.
RootLayout ==
    /\ pc = "layout"
    /\ layout' = [lang |-> locale, dir |-> getDirection(locale)]
    /\ pc' = "request"
    /\ UNCHANGED <<pathname, acceptLanguage, cookie, redirects, entry, locale, page, content, stack,
                   calls, warnings, validated, resolverVars, validatorVars, fetchVars>>

\* getPage(slug) of Page and getPage('home') of Home.
FetchRouted ==
    /\ pc = "request"
    /\ \E p \in RoutedPages :
        /\ page' = p
        /\ pc' = IF Truthy(p) THEN "fetched" ELSE "notFound"
    /\ UNCHANGED <<entry, locale, content, stack, calls, warnings, validated>>
    /\ UNCHANGED <<resolverVars, validatorVars, requestVars, fetchVars>>

NextRoute ==
    \/ proxy
    \/ Unmatched
    \/ Route
    \/ RootLayout
    \/ FetchRouted
    \/ SelectContent
    \/ MapContent
    \/ RenderStep

SpecRoute == InitRoute /\ [][NextRoute]_vars

----------------------------------------------------------------------------
(* lib/cms/api-client.ts: getPage, and SpecFetch, which applies it to      *)
(* every outcome of fetch                                                  *)

\* A body that response.json() cannot parse.
NotJson == [k |-> "invalid-json"]

\* The DynamicPage values the API serves.
ServedPages ==
    {[k |-> "object", slug |-> Str("about"), title |-> Str("About"),
      contentJson |-> PageContent(aNode), contentJsonAr |-> Null],
     [k |-> "object", slug |-> Str("home"), title |-> Str("Home"),
      contentJson |-> Null, contentJsonAr |-> Null]}

\* The bodies of the responses: no JSON, JSON that is no object, and
\* APIResponse objects {success?, data?}.
Bodies ==
    {NotJson, Null, Str("ok"), Arr(<<>>)} \cup
    {[k |-> "object", success |-> ok, data |-> d]
        : ok \in {Undef, Bool(FALSE), Bool(TRUE)}, d \in {Undef, Null} \cup ServedPages}

Statuses == {200, 201, 304, 404, 500}

\* What fetch did: it rejected (network error), or it resolved to a response.
Responses ==
    {[k |-> "networkError"]} \cup
    {[k |-> "response", status |-> st, body |-> b] : st \in Statuses, b \in Bodies}

Slugs == {"home", "about"}

\* response.ok
ResponseOk(resp) == 200 <= resp.status /\ resp.status <= 299

Returns(value) == [outcome |-> "return", value |-> value, errors |-> <<>>]

\* The catch block: console.error, return null.
Caught(slug, error) ==
    [outcome |-> "return", value |-> Null,
     errors |-> <<"Error fetching page \"" \o slug \o "\": " \o error>>]

\* getPage without its try/catch.
getPage_NoCatch(slug, resp) ==
    IF resp.k = "networkError" THEN [outcome |-> "throw", value |-> Undef, errors |-> <<>>]
    ELSE IF ~ResponseOk(resp)
    THEN IF resp.status = 404 THEN Returns(Null)
         ELSE [outcome |-> "throw", value |-> Undef, errors |-> <<>>]
    ELSE IF resp.body = NotJson \/ resp.body = Null
    THEN [outcome |-> "throw", value |-> Undef, errors |-> <<>>]
    ELSE IF ~Truthy(Get(resp.body, "success")) \/ ~Truthy(Get(resp.body, "data"))
    THEN Returns(Null)
    ELSE Returns(resp.body.data)

\* getPage(slug): fetch, the status checks, response.json() and the checks
\* of the result all run inside try; whatever they throw (a rejected fetch,
\* the Error for a status that is not ok and not 404, a body that is no
\* JSON, a property read on null) is caught.
getPage(slug, resp) ==
    IF resp.k = "networkError" THEN Caught(slug, "TypeError: fetch failed")
    ELSE IF ~ResponseOk(resp)
    THEN IF resp.status = 404 THEN Returns(Null)
         ELSE Caught(slug, "Error: Failed to fetch page")
    ELSE IF resp.body = NotJson THEN Caught(slug, "SyntaxError")
    ELSE IF resp.body = Null THEN Caught(slug, "TypeError")
    ELSE IF ~Truthy(Get(resp.body, "success")) \/ ~Truthy(Get(resp.body, "data"))
    THEN Returns(Null)
    ELSE Returns(resp.body.data)

InitFetch ==
    /\ pc = "calling"
    /\ response \in Responses
    /\ errors = <<>>
    /\ page = Undef
    /\ entry = "Page"
    /\ locale = defaultLocale
    /\ content = Undef
    /\ stack = <<>>
    /\ calls = <<>>
    /\ warnings = <<>>
    /\ validated = {}
    /\ pathname = <<>>
    /\ acceptLanguage = Null
    /\ cookie = Undef
    /\ layout = Undef
    /\ redirects = <<>>
    /\ vOp = "none"
    /\ vType = Undef
    /\ vInput = Undef
    /\ vResult = Undef
    /\ vPrev = Undef
    /\ rOp = "none"
    /\ rText = Undef
    /\ rAlign = Undef
    /\ rLang = defaultLocale
    /\ rOut = Undef
    /\ rOut2 = Undef

GetPage ==
    /\ pc = "calling"
    /\ \E slug \in Slugs :
        LET result == getPage(slug, response)
        IN /\ pc' = IF result.outcome = "throw" THEN "threw" ELSE "returned"
           /\ page' = result.value
           /\ errors' = errors \o result.errors
    /\ UNCHANGED <<response, entry, locale, content, stack, calls, warnings, validated>>
    /\ UNCHANGED <<pathname, acceptLanguage, cookie, layout, redirects>>
    /\ UNCHANGED <<resolverVars, validatorVars>>

NextFetch == GetPage

SpecFetch == InitFetch /\ [][NextFetch]_vars

----------------------------------------------------------------------------
(* lib/cms/cms-external.ts: the schema registry and validatePage.  A zod   *)
(* parse returns the issues it found, in the order of the schema's keys,   *)
(* and the parsed data: a new object holding the keys of the schema.       *)

\* The keys of componentSchemas.
componentSchemas ==
    {"Container", "Heading", "Paragraph", "Button", "Image", "HeroSection",
     "PropertyCarousel", "Columns", "Spacer", "Divider", "Accordion", "Tabs",
     "Video", "Card"}

\* The fields of each props schema that are neither .optional() nor .default().
requiredFields ==
    [t \in componentSchemas |->
        CASE t \in {"Heading", "Paragraph", "Button"} -> {"text"}
          [] t = "Image" -> {"src", "alt"}
          [] t = "HeroSection" -> {"title"}
          [] t = "Accordion" -> {"items"}
          [] t = "Tabs" -> {"tabs"}
          [] t = "Video" -> {"url"}
          [] OTHER -> {}]

Issue(code, expected, path) == [code |-> code, expected |-> expected, path |-> path]

\* z.string() on the property f of an object at a path.
StringIssues(v, f, path) ==
    IF Get(v, f).k = "string" THEN <<>>
    ELSE <<Issue("invalid_type", "string", path \o <<f>>)>>

\* z.record(z.string(), z.any()) on the property f: any object that is no
\* array and not null.
RecordIssues(v, f, path) ==
    IF Get(v, f).k = "object" THEN <<>>
    ELSE <<Issue("invalid_type", "record", path \o <<f>>)>>

RECURSIVE ParseNode(_, _), ParseItems(_, _, _)
\* componentNodeSchema: {id: string, type: string, props: record,
\* children?: componentNodeSchema[]}.  The type is any string and the props
\* any record: no entry of componentSchemas is consulted.
ParseNode(v, path) ==
    IF v.k # "object"
    THEN [issues |-> <<Issue("invalid_type", "object", path)>>, data |-> Undef]
    ELSE LET children == Get(v, "children")
             kids ==
                 IF children = Undef THEN [issues |-> <<>>, data |-> Undef]
                 ELSE IF children.k # "array"
                 THEN [issues |-> <<Issue("invalid_type", "array", path \o <<"children">>)>>,
                       data |-> Undef]
                 ELSE ParseItems(children.items, path \o <<"children">>, 1)
         IN [issues |-> StringIssues(v, "id", path) \o StringIssues(v, "type", path)
                            \o RecordIssues(v, "props", path) \o kids.issues,
             data |-> [k |-> "object", id |-> Get(v, "id"), type |-> Get(v, "type"),
                       props |-> Get(v, "props"), children |-> kids.data]]

\* z.array(componentNodeSchema) on the items from index i on.
ParseItems(items, path, i) ==
    IF i > Len(items) THEN [issues |-> <<>>, data |-> Arr(<<>>)]
    ELSE LET first == ParseNode(items[i], path \o <<ToString(i)>>)
             rest == ParseItems(items, path, i + 1)
         IN [issues |-> first.issues \o rest.issues,
             data |-> Arr(<<first.data>> \o rest.data.items)]

\* pageContentSchema with the default of version given as the number 1.0.
ParsePage_NumericVersionDefault(data) ==
    IF data.k # "object"
    THEN [issues |-> <<Issue("invalid_type", "object", <<>>)>>, data |-> Undef]
    ELSE LET version == Get(data, "version")
             root == ParseNode(Get(data, "root"), <<"root">>)
         IN [issues |-> (IF version = Undef THEN <<>>
                         ELSE StringIssues(data, "version", <<>>)) \o root.issues,
             data |-> [k |-> "object",
                       version |-> IF version = Undef THEN Num(1) ELSE version,
                       root |-> root.data]]

\* pageContentSchema: {version: string default "1.0", root: componentNodeSchema}.
ParsePage(data) ==
    IF data.k # "object"
    THEN [issues |-> <<Issue("invalid_type", "object", <<>>)>>, data |-> Undef]
    ELSE LET version == Get(data, "version")
             root == ParseNode(Get(data, "root"), <<"root">>)
         IN [issues |-> (IF version = Undef THEN <<>>
                         ELSE StringIssues(data, "version", <<>>)) \o root.issues,
             data |-> [k |-> "object",
                       version |-> IF version = Undef THEN Str("1.0") ELSE version,
                       root |-> root.data]]

\* safeParse: {success: true, data} or {success: false, error} with the issues.
SafeParse(parsed) ==
    IF parsed.issues = <<>>
    THEN [success |-> TRUE, data |-> parsed.data, issues |-> <<>>]
    ELSE [success |-> FALSE, data |-> Undef, issues |-> parsed.issues]

validatePage(data) == SafeParse(ParsePage(data))

----------------------------------------------------------------------------
(* lib/cms/cms-external.ts: the props schemas and validateComponent.  A    *)
(* z.object schema is the sequence of its fields in key order; a field is  *)
(* required, .optional() or has a .default(), which applies to undefined.  *)

Field(name, kind, mode, dflt, enum, range) ==
    [name |-> name, kind |-> kind, mode |-> mode, dflt |-> dflt,
     enum |-> enum, range |-> range]

Required(name, kind) == Field(name, kind, "required", Undef, {}, <<>>)
Optional(name, kind) == Field(name, kind, "optional", Undef, {}, <<>>)
Default(name, kind, d) == Field(name, kind, "default", d, {}, <<>>)
OptionalEnum(name, values) == Field(name, "enum", "optional", Undef, values, <<>>)
DefaultEnum(name, values, d) == Field(name, "enum", "default", Str(d), values, <<>>)

baseComponentPropsSchema == <<Optional("className", "string"), Optional("style", "record")>>

\* The strings z.string().url() accepts among the strings of the inputs.
UrlStrings == {"https://cdn.emtelaak.com/hero.jpg"}

ButtonVariants == {"default", "outline", "ghost", "destructive"}
TextAligns == {"left", "center", "right", "start", "end"}

containerPropsSchema ==
    baseComponentPropsSchema \o
    <<Optional("maxWidth", "string"), Optional("padding", "string"),
      Optional("margin", "string"), Optional("backgroundColor", "string")>>

headingPropsSchema ==
    baseComponentPropsSchema \o
    <<Required("text", "text"),
      DefaultEnum("level", {"h1", "h2", "h3", "h4", "h5", "h6"}, "h2"),
      OptionalEnum("align", TextAligns), Optional("color", "string")>>

paragraphPropsSchema ==
    baseComponentPropsSchema \o
    <<Required("text", "text"), OptionalEnum("align", TextAligns \cup {"justify"}),
      Optional("fontSize", "string"), Optional("color", "string")>>

buttonPropsSchema ==
    baseComponentPropsSchema \o
    <<Required("text", "text"), Optional("href", "string"),
      DefaultEnum("variant", ButtonVariants, "default"),
      DefaultEnum("size", {"sm", "default", "lg"}, "default"),
      Optional("onClick", "string")>>

imagePropsSchema ==
    baseComponentPropsSchema \o
    <<Required("src", "url"), Required("alt", "string"),
      Optional("width", "number"), Optional("height", "number"),
      OptionalEnum("objectFit", {"contain", "cover", "fill", "none", "scale-down"})>>

heroSectionPropsSchema ==
    baseComponentPropsSchema \o
    <<Required("title", "text"), Optional("subtitle", "text"),
      Optional("backgroundImage", "url"), Optional("backgroundColor", "string"),
      Optional("ctaText", "text"), Optional("ctaLink", "string"),
      DefaultEnum("ctaVariant", ButtonVariants, "default"),
      Optional("height", "string"), OptionalEnum("textAlign", TextAligns),
      Optional("textColor", "string"),
      Field("overlayOpacity", "number", "optional", Undef, {}, <<0, 1>>)>>

propertyCarouselPropsSchema ==
    baseComponentPropsSchema \o
    <<Optional("title", "text"), Optional("subtitle", "text"),
      DefaultEnum("status", {"Active", "Upcoming", "Funded", "Closed"}, "Active"),
      Field("limit", "number", "default", Num(6), {}, <<1, 20>>),
      Default("showViewAll", "boolean", Bool(TRUE)),
      Default("viewAllLink", "string", Str("/properties"))>>

columnsPropsSchema_ExclusiveMin ==
    baseComponentPropsSchema \o
    <<Field("columns", "number", "default", Num(2), {}, <<2, 12>>),
      Optional("gap", "string")>>

columnsPropsSchema ==
    baseComponentPropsSchema \o
    <<Field("columns", "number", "default", Num(2), {}, <<1, 12>>),
      Optional("gap", "string")>>

\* spacerPropsSchema with a default height other than the one Spacer uses.
spacerPropsSchema_OtherDefault ==
    baseComponentPropsSchema \o <<Default("height", "string", Str("1rem"))>>

spacerPropsSchema ==
    baseComponentPropsSchema \o <<Default("height", "string", Str("2rem"))>>

dividerPropsSchema ==
    baseComponentPropsSchema \o
    <<Optional("color", "string"), Optional("thickness", "string"),
      Optional("margin", "string")>>

accordionPropsSchema ==
    baseComponentPropsSchema \o
    <<Field("items", "items", "required", Undef, {"title", "content"}, <<>>),
      Default("allowMultiple", "boolean", Bool(FALSE))>>

tabsPropsSchema ==
    baseComponentPropsSchema \o
    <<Field("tabs", "items", "required", Undef, {"label", "content"}, <<>>),
      Default("defaultTab", "number", Num(0))>>

videoPropsSchema ==
    baseComponentPropsSchema \o
    <<Required("url", "url"), Default("aspectRatio", "string", Str("16/9")),
      Default("autoplay", "boolean", Bool(FALSE))>>

cardPropsSchema ==
    baseComponentPropsSchema \o
    <<Optional("title", "text"), Optional("description", "text"),
      Optional("imageUrl", "url"), Optional("padding", "string"),
      Default("shadow", "boolean", Bool(TRUE))>>

\* componentSchemas[type] for an own key.
SchemaOf(type) ==
    CASE type = "Container" -> containerPropsSchema
      [] type = "Heading" -> headingPropsSchema
      [] type = "Paragraph" -> paragraphPropsSchema
      [] type = "Button" -> buttonPropsSchema
      [] type = "Image" -> imagePropsSchema
      [] type = "HeroSection" -> heroSectionPropsSchema
      [] type = "PropertyCarousel" -> propertyCarouselPropsSchema
      [] type = "Columns" -> columnsPropsSchema
      [] type = "Spacer" -> spacerPropsSchema
      [] type = "Divider" -> dividerPropsSchema
      [] type = "Accordion" -> accordionPropsSchema
      [] type = "Tabs" -> tabsPropsSchema
      [] type = "Video" -> videoPropsSchema
      [] type = "Card" -> cardPropsSchema

\* z.union([z.string(), bilingualTextSchema]): a string, or an object with a
\* string en and an optional string ar.
IsText(v) ==
    \/ v.k = "string"
    \/ /\ v.k = "object"
       /\ Get(v, "en").k = "string"
       /\ Get(v, "ar").k \in {"string", "undefined"}

\* z.number().min(lo).max(hi), both inclusive; 0.5 lies between lo and hi
\* when lo <= 0 and 1 <= hi.
InRange(v, range) ==
    \/ range = <<>>
    \/ IF "e" \in DOMAIN v THEN range[1] <= 0 /\ 1 <= range[2]
       ELSE range[1] <= v.n /\ v.n <= range[2]

\* Whether a defined value satisfies the type of a field.
Accepts(field, v) ==
    CASE field.kind = "string" -> v.k = "string"
      [] field.kind = "url" -> v.k = "string" /\ v.s \in UrlStrings
      [] field.kind = "number" -> v.k = "number" /\ InRange(v, field.range)
      [] field.kind = "boolean" -> v.k = "boolean"
      [] field.kind = "enum" -> v.k = "string" /\ v.s \in field.enum
      [] field.kind = "text" -> IsText(v)
      [] field.kind = "record" -> v.k = "object"
      [] field.kind = "items" ->
            /\ v.k = "array"
            /\ \A i \in 1..Len(v.items) :
                   /\ v.items[i].k = "object"
                   /\ \A f \in field.enum : IsText(Get(v.items[i], f))

\* The value a field holds in the parsed object (undefined: the key is left
\* out), and the issue it raises.
FieldValue(field, data) ==
    LET v == Get(data, field.name)
    IN IF v = Undef /\ field.mode = "default" THEN field.dflt ELSE v

FieldIssues(field, data, path) ==
    LET v == Get(data, field.name)
    IN IF v = Undef
       THEN IF field.mode = "required"
            THEN <<Issue("invalid_type", field.kind, path \o <<field.name>>)>>
            ELSE <<>>
       ELSE IF Accepts(field, v) THEN <<>>
       ELSE <<Issue("invalid", field.kind, path \o <<field.name>>)>>

RECURSIVE SchemaIssues(_, _, _, _)
SchemaIssues(schema, data, path, i) ==
    IF i > Len(schema) THEN <<>>
    ELSE FieldIssues(schema[i], data, path) \o SchemaIssues(schema, data, path, i + 1)

\* z.object(...).parse: the issues of the fields in key order, and a new
\* object that holds the schema's keys whose value is defined (unknown keys
\* are stripped, defaults filled in).
ParseProps(schema, data) ==
    IF data.k # "object"
    THEN [issues |-> <<Issue("invalid_type", "object", <<>>)>>, data |-> Undef]
    ELSE LET present == {i \in DOMAIN schema : FieldValue(schema[i], data) # Undef}
             keys == {schema[i].name : i \in present}
             at(f) == CHOOSE i \in present : schema[i].name = f
         IN [issues |-> SchemaIssues(schema, data, <<>>, 1),
             data |-> [f \in keys \cup {"k"} |->
                          IF f = "k" THEN "object"
                          ELSE FieldValue(schema[at(f)], data)]]

\* componentSchemas[type]: componentSchemas is an object literal, so a key
\* it does not own is looked up on Object.prototype.
componentSchemasAt(type) ==
    IF type.k = "string" /\ type.s \in componentSchemas THEN "own"
    ELSE IF ToStr(type) \in ObjectPrototypeKeys THEN "inherited"
    ELSE "undefined"

\* validateComponent(type, data).  An inherited member of Object.prototype is
\* truthy and has no safeParse: schema.safeParse(data) throws a TypeError.
validateComponent(type, data) ==
    CASE componentSchemasAt(type) = "undefined" ->
            [success |-> FALSE, data |-> Undef,
             error |-> "Unknown component type: " \o ToStr(type)]
      [] componentSchemasAt(type) = "inherited" -> [k |-> "throw"]
      [] componentSchemasAt(type) = "own" -> SafeParse(ParseProps(SchemaOf(type.s), data))

----------------------------------------------------------------------------
(* SpecValidate: validatePage applied to each input *)

\* The labels of the nodes of the pages validated: registered types with
\* props that match their schema, a Heading without its required text, and
\* a type that is not registered.
ValidLabels ==
    {[type |-> Str("Container"), props |-> EmptyObject],
     [type |-> Str("Heading"), props |-> [k |-> "object", text |-> Str("Hello")]]}

ValidatorLabels ==
    ValidLabels \cup
    {[type |-> Str("Heading"), props |-> EmptyObject],
     [type |-> Str("DoesNotExist"), props |-> EmptyObject]}

\* Pages of the PageContent shape: version, root with id, type, props.
WellShapedPages == {PageContent(t) : t \in TreesUpTo(MaxNodes, ValidatorLabels)}

\* Values that are not of the PageContent shape.
MalformedPages ==
    {Null, Str("page"), EmptyObject,
     [k |-> "object", version |-> Str("1.0"), root |-> Null],
     [k |-> "object", version |-> Str("1.0"), root |-> Str("root")],
     [k |-> "object", version |-> Num(1), root |-> aNode],
     PageContent([aNode EXCEPT !.id = Undef]),
     PageContent([aNode EXCEPT !.type = Num(7)]),
     PageContent([aNode EXCEPT !.type = Undef]),
     PageContent([aNode EXCEPT !.props = Null]),
     PageContent([aNode EXCEPT !.props = Undef]),
     PageContent([aNode EXCEPT !.children = Str("none")]),
     PageContent([aNode EXCEPT !.children = Arr(<<Null>>)])}

\* A page without version: the default applies.
UnversionedPages == {[k |-> "object", version |-> Undef, root |-> aNode]}

\* Pages whose props leave out a field that has a default.
DefaultedPages ==
    {PageContent([aNode EXCEPT !.type = Str("Columns")]),
     PageContent([aNode EXCEPT !.type = Str("Spacer")]),
     PageContent([aNode EXCEPT !.type = Str("Columns"),
                               !.props = [k |-> "object", columns |-> Num(3)]])}

ValidatorInputs ==
    WellShapedPages \cup MalformedPages \cup UnversionedPages \cup DefaultedPages

\* The arguments of the validateComponent calls: every key of the registry,
\* strings that name no component, and members of Object.prototype.
TypeInputs ==
    {Str(t) : t \in componentSchemas} \cup
    {Str("DoesNotExist"), Str(""), Str("constructor"), Str("toString"), Str("__proto__")}

DataInputs ==
    {Undef, Null, Str("data"), Num(1), Arr(<<>>), EmptyObject,
     [k |-> "object", text |-> Str("Hello")],
     [k |-> "object", text |-> Bilingual(Str("Hello"), Str("Marhaba")), level |-> Str("h7")],
     [k |-> "object", title |-> Str("Invest"), overlayOpacity |-> Half,
      unknown |-> Str("stripped")],
     [k |-> "object", src |-> Str("https://cdn.emtelaak.com/hero.jpg"), alt |-> Str("Hero"),
      url |-> Str("not a url")],
     [k |-> "object", items |-> Arr(<<[k |-> "object", title |-> Str("Q"),
                                        content |-> Str("A")]>>),
      tabs |-> Arr(<<EmptyObject>>)]}

\* The column counts given to validateComponent("Columns", {columns: n}).
ColumnCounts == -1..14

ColumnsInputs ==
    {[k |-> "object", columns |-> Num(n)] : n \in ColumnCounts} \cup
    {[k |-> "object", columns |-> Str("3")], [k |-> "object", columns |-> Half],
     [k |-> "object", columns |-> Num(3), gap |-> Str("2rem")]}

ComponentCall(type, data) == [type |-> type, data |-> data]

\* Calls on props that satisfy the schema of a renderable type, with and
\* without the fields that have a default.
RenderableCalls ==
    {ComponentCall(Str("Heading"), d) : d \in
        {[k |-> "object", text |-> Bilingual(Str("Hello"), Str("Marhaba")),
          level |-> Str("h3"), align |-> Str("start")],
         [k |-> "object", text |-> Str("Hello"), className |-> Str("title"),
          color |-> Str("#333")]}} \cup
    {ComponentCall(Str("Button"), d) : d \in
        {[k |-> "object", text |-> Str("Buy"), href |-> Str("/buy")],
         [k |-> "object", text |-> Str("Buy"), variant |-> Str("outline"), size |-> Str("sm")],
         [k |-> "object", text |-> Bilingual(Str("Buy"), Str("Ishtari")),
          variant |-> Str("ghost")]}} \cup
    {ComponentCall(Str("HeroSection"), d) : d \in
        {[k |-> "object", title |-> Str("Invest"), ctaText |-> Str("Buy"),
          ctaLink |-> Str("/buy")],
         [k |-> "object", title |-> Str("Invest"), ctaText |-> Str("Buy"),
          ctaLink |-> Str("/buy"), ctaVariant |-> Str("outline"),
          backgroundImage |-> Str("https://cdn.emtelaak.com/hero.jpg")]}} \cup
    {ComponentCall(Str("Spacer"), d) : d \in
        {[k |-> "object", height |-> Str("4rem")]}} \cup
    {ComponentCall(Str("Paragraph"), d) : d \in
        {[k |-> "object", text |-> Str("Hello"), align |-> Str("justify")]}} \cup
    {ComponentCall(Str("Container"), d) : d \in
        {[k |-> "object", padding |-> Str("2rem"), maxWidth |-> Str("1200px")]}} \cup
    {ComponentCall(Str("Divider"), d) : d \in
        {[k |-> "object", color |-> Str("#000"), thickness |-> Str("2px")]}} \cup
    {ComponentCall(Str("Image"), d) : d \in
        {[k |-> "object", src |-> Str("https://cdn.emtelaak.com/hero.jpg"),
          alt |-> Str("Hero"), width |-> Num(800), height |-> Num(600)]}}

ComponentCalls ==
    {ComponentCall(t, d) : t \in TypeInputs, d \in DataInputs} \cup
    {ComponentCall(Str("Columns"), d) : d \in ColumnsInputs} \cup
    RenderableCalls

InitValidate ==
    /\ vOp = "none"
    /\ \/ vType = Undef /\ vInput \in ValidatorInputs
       \/ \E c \in ComponentCalls : vType = c.type /\ vInput = c.data
    /\ vResult = Undef
    /\ vPrev = Undef
    /\ pc = "idle"
    /\ entry = "Page"
    /\ locale = defaultLocale
    /\ page = Undef
    /\ content = Undef
    /\ stack = <<>>
    /\ calls = <<>>
    /\ warnings = <<>>
    /\ validated = {}
    /\ pathname = <<>>
    /\ acceptLanguage = Null
    /\ cookie = Undef
    /\ layout = Undef
    /\ redirects = <<>>
    /\ response = Undef
    /\ errors = <<>>
    /\ rOp = "none"
    /\ rText = Undef
    /\ rAlign = Undef
    /\ rLang = defaultLocale
    /\ rOut = Undef
    /\ rOut2 = Undef

ValidatePage ==
    /\ vOp = "none"
    /\ vType = Undef
    /\ vOp' = "validatePage"
    /\ vResult' = validatePage(vInput)
    /\ UNCHANGED <<vType, vInput, vPrev, pipelineVars, resolverVars, requestVars, fetchVars>>

\* validatePage applied to the data a successful validatePage returned.
Revalidate ==
    /\ vOp = "validatePage"
    /\ vResult.success
    /\ vOp' = "revalidate"
    /\ vPrev' = vResult
    /\ vResult' = validatePage(vResult.data)
    /\ UNCHANGED <<vType, vInput, pipelineVars, resolverVars, requestVars, fetchVars>>

ValidateComponent ==
    /\ vOp = "none"
    /\ vType # Undef
    /\ vOp' = "validateComponent"
    /\ vResult' = validateComponent(vType, vInput)
    /\ UNCHANGED <<vType, vInput, vPrev, pipelineVars, resolverVars, requestVars, fetchVars>>

\* <Component {...props} locale> on the props as given and on the data
\* that validateComponent returned for them: rOut and rOut2 hold the two
\* outputs.
RenderValidated ==
    /\ vOp = "validateComponent"
    /\ componentMapAt(vType) = "own"
    /\ vResult.success
    /\ \E loc \in {"en", "ar"} :
        /\ rLang' = loc
        /\ rOut' = Implementation(vType.s, vInput, loc)
        /\ rOut2' = Implementation(vType.s, vResult.data, loc)
    /\ vOp' = "rendered"
    /\ UNCHANGED <<vType, vInput, vResult, vPrev, rOp, rText, rAlign, pipelineVars,
                   requestVars, fetchVars>>

NextValidate == ValidatePage \/ Revalidate \/ ValidateComponent \/ RenderValidated

SpecValidate == InitValidate /\ [][NextValidate]_vars

----------------------------------------------------------------------------
(* Inputs of the resolver calls *)

\* Text contents: the empty string, an English and an Arabic one.
Strings == {"", "Hello", "Marhaba"}

\* string | BilingualText | undefined, ar present or absent.
TextInputs ==
    {Undef} \cup {Str(s) : s \in Strings}
    \cup {Bilingual(Str(x), Undef) : x \in Strings}
    \cup {Bilingual(Str(x), Str(y)) : x \in Strings, y \in Strings}

\* Locale strings: the two locales and strings that are neither.
LangInputs == {"en", "ar", "fr", "", "AR", "ar-EG", "rtl"}

AlignInputs == {Undef} \cup {Str(a) : a \in AlignKeys}

----------------------------------------------------------------------------
(* SpecResolve: the resolvers applied to every input *)

InitResolve ==
    /\ rOp = "none"
    /\ rText = Undef
    /\ rAlign = Undef
    /\ rLang = defaultLocale
    /\ rOut = Undef
    /\ rOut2 = Undef
    /\ pc = "idle"
    /\ entry = "Page"
    /\ locale = defaultLocale
    /\ page = Undef
    /\ content = Undef
    /\ stack = <<>>
    /\ calls = <<>>
    /\ warnings = <<>>
    /\ validated = {}
    /\ pathname = <<>>
    /\ acceptLanguage = Null
    /\ cookie = Undef
    /\ layout = Undef
    /\ redirects = <<>>
    /\ response = Undef
    /\ errors = <<>>
    /\ vOp = "none"
    /\ vType = Undef
    /\ vInput = Undef
    /\ vResult = Undef
    /\ vPrev = Undef

ResolveText ==
    \E t \in TextInputs, l \in LangInputs :
        /\ rOp' = "getBilingualText"
        /\ rText' = t
        /\ rLang' = l
        /\ rAlign' = Undef
        /\ rOut' = getBilingualText(t, l)
        /\ rOut2' = extGetBilingualText(t, l)
        /\ UNCHANGED <<pipelineVars, validatorVars, requestVars, fetchVars>>

ResolveAlignment ==
    \E a \in AlignInputs, l \in LangInputs :
        /\ rOp' = "getAlignmentClass"
        /\ rAlign' = a
        /\ rLang' = l
        /\ rText' = Undef
        /\ rOut' = getAlignmentClass(a, l)
        /\ rOut2' = extTextAlignAt(a, l)
        /\ UNCHANGED <<pipelineVars, validatorVars, requestVars, fetchVars>>

ResolveDirection ==
    \E l \in LangInputs :
        /\ rOp' = "getDirection"
        /\ rLang' = l
        /\ rText' = Undef
        /\ rAlign' = Undef
        /\ rOut' = Str(getDirection(l))
        /\ rOut2' = Str(rtlGetDirection(l))
        /\ UNCHANGED <<pipelineVars, validatorVars, requestVars, fetchVars>>

NextResolve ==
    \/ ResolveText
    \/ ResolveAlignment
    \/ ResolveDirection

SpecResolve == InitResolve /\ [][NextResolve]_vars

----------------------------------------------------------------------------
(* Claims about validatePage (checked under SpecValidate) *)

\* The type of a node is a key of the schema registry.
Registered(node) ==
    Get(node, "type").k = "string" /\ Get(node, "type").s \in componentSchemas

\* Some node of the page has a type the schema registry does not hold.
HasUnregisteredType(data) ==
    \E p \in PathsOf(data.root, <<>>) : ~Registered(NodeAt(data.root, p))

\* The required fields of its type that the props of a node lack.
MissingFields(node) ==
    IF Registered(node)
    THEN {f \in requiredFields[node.type.s] : Get(node.props, f) = Undef}
    ELSE {}

Last(path) == path[Len(path)]

\* C1: validatePage of an otherwise well-formed page in which some node has a
\* type that is not in the schema registry is a failure that reports the
\* unknown type (an issue on a type property), never a success.
C1_UnknownTypeRejected ==
    (vOp = "validatePage" /\ vInput \in WellShapedPages /\ HasUnregisteredType(vInput)) =>
        /\ ~vResult.success
        /\ \E i \in DOMAIN vResult.issues : Last(vResult.issues[i].path) = "type"

\* C2: validatePage of a page in which a node of a registered type lacks a
\* field its schema requires is a failure that names the missing field, never
\* a success.
C2_MissingFieldRejected ==
    (vOp = "validatePage" /\ vInput \in WellShapedPages) =>
        \A p \in PathsOf(vInput.root, <<>>) :
            \A f \in MissingFields(NodeAt(vInput.root, p)) :
                /\ ~vResult.success
                /\ \E i \in DOMAIN vResult.issues : Last(vResult.issues[i].path) = f

\* The types whose implementation places no {children} in its output.
ChildlessTypes == {t \in componentMap : ~Implementation(t, EmptyObject, defaultLocale).slot}

\* Every node of the page has a registered type, props that match the schema
\* of the type, and children only where the type places them.
WellFormedNode(node) ==
    /\ Registered(node)
    /\ ParseProps(SchemaOf(node.type.s), node.props).issues = <<>>
    /\ node.type.s \in ChildlessTypes => node.children = Undef

WellFormed(data) ==
    /\ data \in WellShapedPages \cup UnversionedPages \cup DefaultedPages
    /\ \A p \in PathsOf(data.root, <<>>) : WellFormedNode(NodeAt(data.root, p))

\* A well-formed tree with the defaults its schemas declare filled in.
RECURSIVE WithDefaults(_)
WithDefaults(node) ==
    [node EXCEPT
        !.props = ParseProps(SchemaOf(node.type.s), @).data,
        !.children =
            IF @ = Undef THEN Undef
            ELSE Arr([i \in 1..Len(@.items) |-> WithDefaults(@.items[i])])]

\* C11: validatePage of a well-formed page succeeds and returns the input
\* tree in which each absent field that has a declared default (Heading
\* level, Columns columns, version) holds that default.
C11_DefaultsFilledIn ==
    (vOp = "validatePage" /\ WellFormed(vInput)) =>
        /\ vResult.success
        /\ vResult.data = [k |-> "object",
                           version |-> Dflt(vInput.version, Str("1.0")),
                           root |-> WithDefaults(vInput.root)]

\* C12: validatePage is idempotent on its own output: the data of a success,
\* validated again, is a success with the same data.
C12_Idempotent ==
    vOp = "revalidate" => (vResult.success /\ vResult.data = vPrev.data)

\* C12 witness: a page returned with the default version filled in has been
\* validated a second time.
C12_Witness ==
    /\ vOp = "revalidate"
    /\ vInput.version = Undef
    /\ vPrev.data.version = Str("1.0")
    /\ vResult.success

\* Some node of a type that places no children has children.
UnexpectedChildren(data) ==
    \E p \in PathsOf(data.root, <<>>) :
        LET node == NodeAt(data.root, p)
        IN Registered(node) /\ node.type.s \in ChildlessTypes /\ node.children # Undef

\* C13: validatePage of a page in which a node of a type that takes no
\* children (Heading, Image, Spacer, Divider) has children is a failure.
C13_UnexpectedChildrenRejected ==
    (vOp = "validatePage" /\ vInput \in WellShapedPages /\ UnexpectedChildren(vInput)) =>
        ~vResult.success

\* C14: validateComponent and validatePage are total: for every type string
\* and every data value they return a tagged result and never throw; an
\* unregistered type and a missing or invalid root are failures.
C14_Total ==
    /\ vOp \in {"validatePage", "validateComponent"} =>
            /\ vResult # [k |-> "throw"]
            /\ vResult.success \in BOOLEAN
    /\ (vOp = "validateComponent" /\ ~(vType.s \in componentSchemas)) => ~vResult.success
    /\ (vOp = "validatePage" /\ Get(vInput, "root").k # "object") => ~vResult.success

\* C19: validateComponent("Columns", {columns: n}) succeeds exactly for the
\* integers n with 1 <= n <= 12, and validateComponent("Columns", {})
\* succeeds with columns = 2.
C19_ColumnsRange ==
    (vOp = "validateComponent" /\ vType = Str("Columns")) =>
        /\ \A n \in ColumnCounts :
                vInput = [k |-> "object", columns |-> Num(n)] =>
                    (vResult.success <=> (1 <= n /\ n <= 12))
        /\ vInput = EmptyObject => (vResult.success /\ vResult.data.columns = Num(2))

\* C19 witness: calls at both ends of the range, just outside it, and
\* without a count have returned.
C19_Witness ==
    /\ vOp = "validateComponent"
    /\ vType = Str("Columns")
    /\ \/ vInput = [k |-> "object", columns |-> Num(12)] /\ vResult.success
       \/ vInput = [k |-> "object", columns |-> Num(0)] /\ ~vResult.success

\* C20: the schema registry and the dispatch table cover the same type
\* names: a type has a schema exactly when it has a rendering implementation.
C20_SameTypeUniverse ==
    vOp = "validateComponent" =>
        (componentSchemasAt(vType) = "own" <=> componentMapAt(vType) = "own")

\* C22: schema defaults and renderer defaults agree: for every node of a
\* renderable type whose props satisfy its schema, rendering the props as
\* given and rendering the data that validateComponent returned for them
\* (defaults filled in) give the same output.
C22_DefaultsAgree ==
    vOp = "rendered" => rOut = rOut2

\* C22 witness: props that leave out a field with a default (Spacer height,
\* Heading level, Button variant) were validated, the default was filled in,
\* and both were rendered.
C22_Witness ==
    /\ vOp = "rendered"
    /\ \/ vType = Str("Spacer") /\ Get(vInput, "height") = Undef
          /\ vResult.data.height = Str("2rem")
       \/ vType = Str("Heading") /\ Get(vInput, "level") = Undef
          /\ vResult.data.level = Str("h2")
       \/ vType = Str("Button") /\ Get(vInput, "variant") = Undef
          /\ vResult.data.variant = Str("default")

----------------------------------------------------------------------------
(* Claims about the page pipeline (checked under Spec) *)

\* The number of ComponentRenderer invocations on the node at a path.
Visits(path) == Cardinality({i \in DOMAIN calls : calls[i].path = path})

\* The position of the first invocation on a path (0: none).
CallIndex(path) ==
    IF Visits(path) = 0 THEN 0
    ELSE CHOOSE i \in DOMAIN calls :
            calls[i].path = path /\ \A j \in DOMAIN calls : calls[j].path = path => i <= j

\* The content selected for a slug page has the PageContent shape: a root
\* node with id, type and props, and arrays of such nodes as children.
WellShapedContent == entry = "Page" /\ ParsePage(content).issues = <<>>

\* C3: every node whose props are handed to a rendering implementation has
\* passed schema validation before.
C3_RendererSeesValidatedProps ==
    \A i \in DOMAIN calls : calls[i].found = "own" => calls[i].path \in validated

\* C4: rendering visits each node at most once, and once the root is rendered
\* every node whose own type is in the dispatch table has been rendered
\* exactly once, whatever the types of its ancestors.
C4_EveryKnownNodeRenderedOnce ==
    (pc \in {"rendering", "done"} /\ WellShapedContent) =>
        \A p \in PathsOf(RootOf(entry, content), <<>>) :
            /\ Visits(p) <= 1
            /\ (pc = "done" /\ componentMapAt(Get(NodeAt(RootOf(entry, content), p), "type")) = "own")
                    => Visits(p) = 1

\* C5: rendering a node whose type string is no key of the dispatch table is
\* not fatal: a diagnostic is emitted, the node's output is empty, and its
\* siblings of a registered type are all rendered, in position order.
C5_UnknownTypeNonFatal ==
    WellShapedContent =>
    /\ pc # "threw"
    /\ \A i \in DOMAIN calls :
        ~(calls[i].type.k = "string" /\ calls[i].type.s \in componentMap) =>
            /\ calls[i].out = Null
            /\ \E w \in DOMAIN warnings :
                warnings[w] = "Component type \"" \o ToStr(calls[i].type) \o "\" not found"
            /\ pc = "done" =>
                LET p == calls[i].path
                    parent == SubSeq(p, 1, Len(p) - 1)
                    siblings ==
                        IF p = <<>> THEN {}
                        ELSE {q \in PathsOf(RootOf(entry, content), <<>>) :
                                /\ Len(q) = Len(p)
                                /\ SubSeq(q, 1, Len(q) - 1) = parent
                                /\ componentMapAt(Get(NodeAt(RootOf(entry, content), q), "type")) = "own"}
                IN \A q \in siblings :
                    /\ Visits(q) = 1
                    /\ \A r \in siblings :
                        Last(q) < Last(r) => CallIndex(q) < CallIndex(r)

\* C15: when the content selected for the locale is missing, null, lacks a
\* root or is malformed (root, node or children field of the wrong shape),
\* the entry point (slug page or home page) renders the "no content"
\* fallback and does not throw.
C15_MalformedContentFallback ==
    (pc \in {"noContent", "rendering", "done", "threw"} /\ ParsePage(content).issues # <<>>)
        => pc = "noContent"

----------------------------------------------------------------------------
(* Claims about the components (checked under SpecRender) *)

NonEmptyString(v) == v.k = "string" /\ v.s # ""

\* C17: HeroSection renders its call-to-action button exactly when ctaText,
\* resolved for the current language, and ctaLink are both non-empty
\* strings.
C17_CtaIffTextAndLink ==
    (pc = "done" /\ content.root.type = Str("HeroSection")) =>
        LET props == content.root.props
        IN (calls[1].out.cta # Null) <=>
                (/\ NonEmptyString(getBilingualText(props.ctaText, locale))
                 /\ NonEmptyString(props.ctaLink))

\* C18: rendering a Columns node with columns = n (2 when absent) and k
\* children of types in the dispatch table yields a grid of n tracks that
\* holds the k rendered children, in the order of the children sequence.
C18_ColumnsGrid ==
    (pc = "done" /\ content.root.type = Str("Columns")) =>
        LET node == content.root
            n == Dflt(Get(node.props, "columns"), Num(2)).n
            kids == IF node.children = Undef THEN <<>> ELSE node.children.items
        IN /\ calls[1].path = <<>>
           /\ calls[1].out.style.gridTemplateColumns = Str("repeat(" \o ToString(n) \o ", 1fr)")
           /\ calls[1].out.slot
           /\ Len(calls) = Len(kids) + 1
           /\ \A i \in 1..Len(kids) :
                /\ calls[i + 1].path = <<i>>
                /\ calls[i + 1].out = Implementation(kids[i].type.s, kids[i].props, locale)

\* C18 witness: a Columns node with columns = 3 and two children has been
\* rendered.
C18_Witness ==
    /\ pc = "done"
    /\ content.root.type = Str("Columns")
    /\ content.root.props = [k |-> "object", columns |-> Num(3)]
    /\ content.root.children # Undef
    /\ Len(content.root.children.items) = 2
    /\ Len(calls) = 3

\* C21: Image outputs a fixed-dimension image node exactly when both width
\* and height are given in the props, for every number the schema accepts,
\* and a fluid image node otherwise; an absent objectFit is rendered as
\* cover.
C21_ImageFixedIffBothSizes ==
    (/\ pc = "done"
     /\ content.root.type = Str("Image")
     /\ ParseProps(imagePropsSchema, content.root.props).issues = <<>>) =>
        LET props == content.root.props
            out == calls[1].out
        IN /\ (out.tag = "NextImage") <=> (props.width # Undef /\ props.height # Undef)
           /\ (out.tag # "NextImage") => (out.tag = "img" /\ out.style.width = Str("100%"))
           /\ props.objectFit = Undef => out.style.objectFit = Str("cover")

----------------------------------------------------------------------------
(* Claims about the route locale (checked under SpecRoute) *)

\* C16: the locale that a layout or a page hands to getDirection,
\* getPageContent or ComponentRenderer is "en" or "ar": a route parameter
\* outside this set is rejected or replaced by the default before.
C16_LocaleClosed ==
    (layout # Undef \/ pc \in {"fetched", "noContent", "rendering", "done", "threw"})
        => isValidLocale(locale)

\* C23: the proxy never loops: a matched path that starts with a locale is
\* passed through as it is, and any other matched path is redirected once,
\* to the same path prefixed with a locale of {en, ar}, with the NEXT_LOCALE
\* cookie set to that locale; the redirected request is passed through
\* without another redirect.
C23_RedirectOnce ==
    /\ Len(redirects) <= 1
    /\ \A i \in DOMAIN redirects :
        LET r == redirects[i]
        IN /\ matcher(r.from)
           /\ ~pathnameHasLocale(r.from)
           /\ isValidLocale(r.cookie.s)
           /\ r.to = <<r.cookie.s>> \o r.from
           /\ matcher(r.to) /\ pathnameHasLocale(r.to)
           /\ pathname = r.to
           /\ cookie = r.cookie
    /\ (pc # "received" /\ matcher(pathname)) => pathnameHasLocale(pathname)

\* C23 witness: a request for /about was redirected to /ar/about with the
\* cookie set to ar, and the redirected request was passed on.
C23_Witness ==
    /\ pc = "routing"
    /\ Len(redirects) = 1
    /\ redirects[1].from = <<"about">>
    /\ pathname = <<"ar", "about">>
    /\ cookie = Str("ar")

----------------------------------------------------------------------------
(* Claims about getPage (checked under SpecFetch) *)

\* C24: getPage never throws: it returns the page data when the response
\* is ok and the body has success = true with data present, and null for
\* every other outcome of the fetch (network error, 404, another status
\* that is not ok, a body that is no JSON, success = false, no data).
C24_GetPageTotal ==
    pc # "calling" =>
        /\ pc = "returned"
        /\ LET served ==
                /\ response.k = "response"
                /\ ResponseOk(response)
                /\ response.body.k = "object"
                /\ response.body.success = Bool(TRUE)
                /\ response.body.data \notin {Undef, Null}
           IN page = IF served THEN response.body.data ELSE Null

\* C24 witness: a call whose fetch got status 500 has returned null after
\* logging the error.
C24_Witness ==
    /\ pc = "returned"
    /\ response.k = "response"
    /\ response.status = 500
    /\ page = Null
    /\ Len(errors) = 1

----------------------------------------------------------------------------
(* Claims about the resolvers (checked under SpecResolve) *)

\* C6: for a language in {en, ar} and a bilingual record {en: X, ar: Y},
\* getBilingualText (both implementations) returns Y when the language is ar
\* and Y is a non-empty string, and X in every other case; so for Arabic the
\* result is not empty when X is not empty.
C6_BilingualFallback ==
    (rOp = "getBilingualText" /\ rText.k = "object" /\ rLang \in {"en", "ar"}) =>
        LET expected ==
                IF rLang = "ar" /\ rText.ar.k = "string" /\ rText.ar.s # ""
                THEN rText.ar ELSE rText.en
        IN /\ rOut = expected
           /\ rOut2 = expected
           /\ (rLang = "ar" /\ rText.en # Str("")) => rOut # Str("")

\* Arabic was asked for, ar is the empty string, and en came back.
C6_Witness ==
    /\ rOp = "getBilingualText"
    /\ rLang = "ar"
    /\ rText = Bilingual(Str("Hello"), Str(""))
    /\ rOut = Str("Hello")

\* C7: for inputs that are no record the result does not depend on the
\* language: undefined gives the empty string and a plain string gives itself.
C7_NonRecordText ==
    (rOp = "getBilingualText" /\ rText.k # "object") =>
        /\ rText = Undef => (rOut = Str("") /\ rOut2 = Str(""))
        /\ rText.k = "string" => (rOut = rText /\ rOut2 = rText)

\* A plain string was resolved for Arabic and came back unchanged.
C7_Witness ==
    /\ rOp = "getBilingualText"
    /\ rLang = "ar"
    /\ rText = Str("Hello")
    /\ rOut = Str("Hello")

\* The physical side a logical keyword stands for in a language.
LogicalSide(keyword, language) ==
    IF (keyword = "start") = (language = "en") THEN "left" ELSE "right"

\* C8: start and end resolve to opposite physical sides in en and in ar: under
\* the page's dir attribute, start is the left side and end the right side in
\* ltr, and the other way round in rtl (for getAlignmentClass and for
\* getRTLClasses).
C8_LogicalAlignment ==
    (rOp = "getAlignmentClass" /\ rAlign \in {Str("start"), Str("end")}
        /\ rLang \in {"en", "ar"}) =>
        /\ PhysicalSide(rOut, getDirection(rLang)) = LogicalSide(rAlign.s, rLang)
        /\ PhysicalSide(rOut2, getDirection(rLang)) = LogicalSide(rAlign.s, rLang)
        /\ LogicalSide(rAlign.s, "en") # LogicalSide(rAlign.s, "ar")

\* start was resolved for Arabic and lands on the right side.
C8_Witness ==
    /\ rOp = "getAlignmentClass"
    /\ rAlign = Str("start")
    /\ rLang = "ar"
    /\ PhysicalSide(rOut, getDirection(rLang)) = "right"

\* C9: for a physical keyword (left, right, center, justify) getAlignmentClass
\* returns the class of the keyword itself, the same for en and for ar.
C9_PhysicalAlignment ==
    (rOp = "getAlignmentClass" /\ rLang \in {"en", "ar"}
        /\ rAlign \in {Str("left"), Str("right"), Str("center"), Str("justify")}) =>
        /\ rOut = Str("text-" \o rAlign.s)
        /\ PhysicalSide(rOut, getDirection(rLang)) = rAlign.s

\* left was resolved for Arabic and stays text-left.
C9_Witness ==
    /\ rOp = "getAlignmentClass"
    /\ rAlign = Str("left")
    /\ rLang = "ar"
    /\ rOut = Str("text-left")

\* C10: getDirection is rtl for "ar" and ltr for every other value, and the
\* implementations of i18n.ts and of rtl-utils.ts agree on every input.
C10_Direction ==
    rOp = "getDirection" =>
        /\ rOut = Str(IF rLang = "ar" THEN "rtl" ELSE "ltr")
        /\ rOut2 = rOut

\* Both directions were produced: here rtl for ar.
C10_Witness ==
    /\ rOp = "getDirection"
    /\ rLang = "ar"
    /\ rOut = Str("rtl")
    /\ rOut2 = Str("rtl")

====
